---- MODULE Spec2Model ----
(***************************************************************************)
(* Request admission (fitness_sessions) and priority scheduling            *)
(* (trainer_bookings) of the fitness-tracker repository.                   *)
(*                                                                         *)
(* The database tables are the shared state.  Every view runs in a worker  *)
(* process p; under Django's default autocommit each ORM call is one       *)
(* database statement, so a view is a sequence of steps, one per           *)
(* statement, and the steps of different workers interleave.  The          *)
(* sequential specifications let one worker run; the concurrent ones let   *)
(* all workers run.                                                        *)
(***************************************************************************)
EXTENDS Integers, Sequences, FiniteSets, TLC

\* ------------------------------------------------------------------ bounds
NumProcs == 2
NumUsers == 3
MaxCapacity == 2
MaxRequests == 3
MaxBookings == 2
MaxEnqueues == 4
MaxInserts == 4
MaxPushes == 4
MaxStackSize == 3
MaxSeedLen == 7

Procs == 1..NumProcs
Users == 1..NumUsers
SessionIds == {1}
NoRequest == 0
Trainers == {1, 2}
\* the users who book; any user may ask to cancel
Clients == {1}
\* requested_date as days since 1970-01-01: 2024-01-01 and 2024-01-02
Dates == {19723, 19724}
\* requested_time as seconds since midnight: 09:00 and 10:00
Times == {32400, 36000}
SecondsPerDay == 86400
NULL == "NULL"
Now == "now"
NoBooking == [id |-> 0]
NoReturn == 0 - 1
\* the items a caller enqueues
QueueItems == {1, 2}
\* the scores a caller inserts: those of the documented example
Scores == {1, 2, 5, 8}
\* the session ids a caller pushes
StackItems == {1, 2}
\* None where a session id is expected
NoSession == NoRequest
\* RecentSessionsStack.__init__'s default max_size
DefaultMaxSize == 5
\* the characters of a seed, by code point: 'a', U+1F510 and U+10FFFF
Chars == {97, 128272, 1114111}
Modulus1 == 1000000007
Modulus2 == 1000000009
\* None where a heap entry (score, item) is expected
NoEntry == [score |-> 0, item |-> 0]

VARIABLES
    \* fitness_sessions tables
    capacity,         \* Session.capacity, by session id
    participants,     \* SessionParticipant rows: a set of <<session, user>>
    requests,         \* JoinRequestQueue rows in creation (timestamp) order
    \* fitness_sessions views, per worker
    pc,               \* the statement the worker executes next
    view_user,        \* request.user
    view_session,     \* session_id
    join_request,     \* join_session's join_request (row id), or NoRequest
    queue,            \* SessionJoinQueue.items (row ids of the loaded requests)
    current_request,  \* process_join_queue's current_request (row id)
    current_count,    \* process_join_queue's current_count
    message,          \* the outcome the view reported last
    pass_start,       \* history: what the worker's last pass loaded and counted
    participant_rows, \* the number of SessionParticipant rows per <<session, user>>
    full_reported,    \* history: the requests whose view reported 'Session is full'
    \* trainer_bookings table
    bookings,         \* TrainerBooking rows in creation (created_at) order
    \* trainer_bookings views, per worker
    bpc,              \* the statement the worker executes next
    trainer_id,       \* process_booking_queue's trainer_id
    booking,          \* cancel_booking's booking: [id, row], the row as loaded
    pending_bookings, \* process_booking_queue's pending_bookings still to visit
    confirmed_times,  \* process_booking_queue's confirmed_times
    processed_count,  \* process_booking_queue's processed_count
    returned,         \* what process_booking_queue returned last, or NoReturn
    pass_pending,     \* history: the row ids pending when the last pass started
    pass_order,       \* history: the row ids in the order the last pass took them
    pass_trainer,     \* history: the trainer of the worker's last pass
    \* a SessionJoinQueue object and its caller
    queue_items,      \* SessionJoinQueue.items
    queue_result,     \* how the last call on the queue ended
    enqueued,         \* history: the items enqueued, in call order
    dequeued,         \* history: the items dequeue returned from a non-empty queue
    \* a MinHeap object and its caller
    heap,             \* MinHeap.heap: entries [score, item], index i at heap[i + 1]
    heap_result,      \* how the last call on the heap ended
    inserted,         \* history: the entries inserted, in call order
    drained,          \* history: the entries extracted since the last insert
    \* a RecentSessionsStack object and its caller
    stack_items,      \* RecentSessionsStack.items
    max_size,         \* RecentSessionsStack.max_size
    stack_result,     \* how the last call on the stack ended
    pushed,           \* history: the items pushed, in call order
    popped_items,     \* history: the items pop returned from a non-empty stack
    \* NEASaltGenerator.generate
    seed_text,        \* NEASaltGenerator.seed_text, as the code points of its characters
    salt_i,           \* generate's i: the number of characters consumed
    s1,               \* generate's s1
    s2,               \* generate's s2
    salt              \* the string generate returned, or <<>> while it runs

session_vars == <<capacity, participants, requests, pc, view_user, view_session,
                  join_request, queue, current_request, current_count, message,
                  pass_start, participant_rows, full_reported>>

booking_vars == <<bookings, bpc, trainer_id, booking, pending_bookings,
                  confirmed_times, processed_count, returned, pass_pending,
                  pass_order, pass_trainer>>

queue_vars == <<queue_items, queue_result, enqueued, dequeued>>

heap_vars == <<heap, heap_result, inserted, drained>>

stack_vars == <<stack_items, max_size, stack_result, pushed, popped_items>>

salt_vars == <<seed_text, salt_i, s1, s2, salt>>

container_vars == <<queue_vars, heap_vars, stack_vars, salt_vars>>

vars == <<session_vars, booking_vars, container_vars>>

\* ------------------------------------------------ fitness_sessions/models.py

\* Session.get_current_participants_count
get_current_participants_count(s) ==
    Cardinality({pr \in participants : pr[1] = s})

\* Session.has_user_joined
has_user_joined(s, u) == <<s, u>> \in participants

\* JoinRequestQueue(session, user): processed and success default to False
NewJoinRequest(s, u) ==
    [session |-> s, user |-> u, processed |-> FALSE, success |-> FALSE]

\* ------------------------------------------------- fitness_sessions/queue.py

\* SessionJoinQueue.enqueue
enqueue(items, item) == Append(items, item)

\* SessionJoinQueue.is_empty
is_empty(items) == Len(items) = 0

dequeue_last(items) == IF ~is_empty(items) THEN items[Len(items)] ELSE NoRequest

\* SessionJoinQueue.dequeue: the item returned (None, here NoRequest, if empty)
dequeue(items) == IF ~is_empty(items) THEN Head(items) ELSE NoRequest

\* SessionJoinQueue.dequeue: the items left by pop(0)
dequeue_rest(items) == IF ~is_empty(items) THEN Tail(items) ELSE items

\* -------------------------------------------------- fitness_sessions/views.py

pending_requests_newest_first(s) ==
    LET ids == SelectSeq([i \in 1..Len(requests) |-> i],
                         LAMBDA i : requests[i].session = s /\ ~requests[i].processed)
    IN [k \in 1..Len(ids) |-> ids[Len(ids) - k + 1]]

pending_requests_unfiltered(s) ==
    SelectSeq([i \in 1..Len(requests) |-> i], LAMBDA i : requests[i].session = s)

\* JoinRequestQueue.objects.filter(session, processed=False).order_by('timestamp'):
\* the row ids, earliest timestamp first (rows are kept in creation order)
pending_requests(s) ==
    SelectSeq([i \in 1..Len(requests) |-> i],
              LAMBDA i : requests[i].session = s /\ ~requests[i].processed)

RECURSIVE enqueue_all(_, _)
\* for request in pending_requests: queue.enqueue(request)
enqueue_all(items, pending) ==
    IF pending = <<>> THEN items
    ELSE enqueue_all(enqueue(items, Head(pending)), Tail(pending))

NoUniqueConstraint(s, u) == FALSE

\* unique_together = ['session', 'user'] (models.py:47): an insert of a second
\* row for the pair is refused with IntegrityError
ViolatesUniqueTogether(s, u) == <<s, u>> \in participants

\* the SessionParticipant rows, counted per <<session, user>>
RowsOf(parts) ==
    [pr \in (DOMAIN capacity) \X Users |-> IF pr \in parts THEN 1 ELSE 0]

HasCapacityOffByOne(count, cap) == count <= cap

\* if current_count < session.capacity
HasCapacity(count, cap) == count < cap

SaveRequestSuccessOnly(i, ok) == [requests EXCEPT ![i].success = ok]

\* current_request.processed = ...; current_request.success = ...; save()
SaveRequest(i, ok) ==
    [requests EXCEPT ![i].processed = TRUE, ![i].success = ok]

NoPass == [pending |-> <<>>, count |-> 0, session |-> 0]

\* the view returns: its locals are dropped
Return(p, msg) ==
    /\ pc' = [pc EXCEPT ![p] = "idle"]
    /\ message' = [message EXCEPT ![p] = msg]
    /\ view_user' = [view_user EXCEPT ![p] = 0]
    /\ view_session' = [view_session EXCEPT ![p] = 0]
    /\ join_request' = [join_request EXCEPT ![p] = NoRequest]
    /\ queue' = [queue EXCEPT ![p] = <<>>]
    /\ current_request' = [current_request EXCEPT ![p] = NoRequest]
    /\ current_count' = [current_count EXCEPT ![p] = 0]

\* join_session, lines 116-121: the has_user_joined query (the second conjunct
\* is the model's bound on the number of join requests ever created)
JoinSession(p, u, s) ==
    /\ pc[p] = "idle"
    /\ Len(requests) + Cardinality({q \in Procs : pc[q] = "create"}) < MaxRequests
    /\ IF has_user_joined(s, u)
       THEN /\ Return(p, "already_joined")
       ELSE /\ pc' = [pc EXCEPT ![p] = "create"]
            /\ view_user' = [view_user EXCEPT ![p] = u]
            /\ view_session' = [view_session EXCEPT ![p] = s]
            /\ message' = [message EXCEPT ![p] = "none"]
            /\ UNCHANGED <<join_request, queue, current_request, current_count>>
    /\ UNCHANGED <<capacity, participants, requests, pass_start, participant_rows,
                   full_reported>>
    /\ UNCHANGED <<booking_vars, container_vars>>

\* join_session, lines 123-127: JoinRequestQueue.objects.create
CreateJoinRequest(p) ==
    /\ pc[p] = "create"
    /\ requests' = Append(requests, NewJoinRequest(view_session[p], view_user[p]))
    /\ join_request' = [join_request EXCEPT ![p] = Len(requests) + 1]
    /\ pc' = [pc EXCEPT ![p] = "load"]
    /\ UNCHANGED <<capacity, participants, view_user, view_session, queue,
                   current_request, current_count, message, pass_start,
                   participant_rows, full_reported>>
    /\ UNCHANGED <<booking_vars, container_vars>>

\* process_join_queue, lines 150-163: the pending query, loaded into the queue
LoadPendingRequests(p) ==
    /\ pc[p] = "load"
    /\ queue' = [queue EXCEPT ![p] = enqueue_all(<<>>, pending_requests(view_session[p]))]
    /\ pass_start' = [pass_start EXCEPT ![p] =
                        [pending |-> pending_requests(view_session[p]),
                         count |-> get_current_participants_count(view_session[p]),
                         session |-> view_session[p]]]
    /\ pc' = [pc EXCEPT ![p] = "loop"]
    /\ UNCHANGED <<capacity, participants, requests, view_user, view_session,
                   join_request, current_request, current_count, message,
                   participant_rows, full_reported>>
    /\ UNCHANGED <<booking_vars, container_vars>>

\* process_join_queue, lines 166-171: the loop test, dequeue and the count query;
\* with the queue empty the pass returns to join_session (or to its caller)
DequeueAndCount(p) ==
    /\ pc[p] = "loop"
    /\ IF is_empty(queue[p])
       THEN IF join_request[p] = NoRequest
            THEN Return(p, "pass_done")
            ELSE /\ pc' = [pc EXCEPT ![p] = "refresh"]
                 /\ UNCHANGED <<view_user, view_session, join_request, queue,
                                current_request, current_count, message>>
       ELSE /\ current_request' = [current_request EXCEPT ![p] = dequeue(queue[p])]
            /\ queue' = [queue EXCEPT ![p] = dequeue_rest(queue[p])]
            /\ current_count' = [current_count EXCEPT ![p] =
                                   get_current_participants_count(view_session[p])]
            /\ pc' = [pc EXCEPT ![p] = "decide"]
            /\ UNCHANGED <<view_user, view_session, join_request, message>>
    /\ UNCHANGED <<capacity, participants, requests, pass_start, participant_rows,
                   full_reported>>
    /\ UNCHANGED <<booking_vars, container_vars>>

\* process_join_queue, lines 174-179 and 185-193.  With capacity left the
\* participant row is inserted; unique_together (models.py:47) makes the insert
\* raise IntegrityError when the row exists, and nothing catches it: the view
\* ends there.  Without capacity the request is saved as failed and the loop
\* breaks.
AdmitOrReject(p) ==
    /\ pc[p] = "decide"
    /\ LET s == view_session[p]
           r == current_request[p]
       IN IF HasCapacity(current_count[p], capacity[s])
          THEN IF ViolatesUniqueTogether(s, requests[r].user)
               THEN /\ Return(p, "error")
                    /\ UNCHANGED <<participants, requests, participant_rows>>
               ELSE /\ participants' = participants \cup {<<s, requests[r].user>>}
                    /\ participant_rows' =
                          [participant_rows EXCEPT ![<<s, requests[r].user>>] = @ + 1]
                    /\ pc' = [pc EXCEPT ![p] = "save"]
                    /\ UNCHANGED <<requests, view_user, view_session, join_request,
                                   queue, current_request, current_count, message>>
          ELSE /\ requests' = SaveRequest(r, FALSE)
               /\ UNCHANGED <<participants, participant_rows>>
               /\ IF join_request[p] = NoRequest
                  THEN Return(p, "pass_done")
                  ELSE /\ pc' = [pc EXCEPT ![p] = "refresh"]
                       /\ UNCHANGED <<view_user, view_session, join_request, queue,
                                      current_request, current_count, message>>
    /\ UNCHANGED <<capacity, pass_start, full_reported>>
    /\ UNCHANGED <<booking_vars, container_vars>>

\* process_join_queue, lines 181-184: the admitted request is saved
SaveAdmitted(p) ==
    /\ pc[p] = "save"
    /\ requests' = SaveRequest(current_request[p], TRUE)
    /\ pc' = [pc EXCEPT ![p] = "loop"]
    /\ UNCHANGED <<capacity, participants, view_user, view_session, join_request,
                   queue, current_request, current_count, message, pass_start,
                   participant_rows, full_reported>>
    /\ UNCHANGED <<booking_vars, container_vars>>

\* join_session, lines 132-139: refresh_from_db and the message
RefreshFromDb(p) ==
    /\ pc[p] = "refresh"
    /\ Return(p, IF requests[join_request[p]].success THEN "joined" ELSE "full")
    /\ full_reported' = IF requests[join_request[p]].success THEN full_reported
                        ELSE full_reported \cup {join_request[p]}
    /\ UNCHANGED <<capacity, participants, requests, pass_start, participant_rows>>
    /\ UNCHANGED <<booking_vars, container_vars>>

\* leave_session, lines 201-210: the participant row is looked up and deleted
\* (a delete of a row already gone deletes nothing, so the two statements are
\* taken as one step)
LeaveSession(p, u, s) ==
    /\ pc[p] = "idle"
    /\ IF <<s, u>> \in participants
       THEN /\ participants' = participants \ {<<s, u>>}
            /\ participant_rows' = [participant_rows EXCEPT ![<<s, u>>] = 0]
            /\ Return(p, "left")
       ELSE /\ UNCHANGED <<participants, participant_rows>>
            /\ Return(p, "not_participant")
    /\ UNCHANGED <<capacity, requests, pass_start, full_reported>>
    /\ UNCHANGED <<booking_vars, container_vars>>

\* the statements a view that has started still has to execute
Continue(p) ==
    \/ CreateJoinRequest(p)
    \/ LoadPendingRequests(p)
    \/ DequeueAndCount(p)
    \/ AdmitOrReject(p)
    \/ SaveAdmitted(p)
    \/ RefreshFromDb(p)

SessionStep(p) ==
    \/ \E u \in Users, s \in DOMAIN capacity : JoinSession(p, u, s)
    \/ \E u \in Users, s \in DOMAIN capacity : LeaveSession(p, u, s)
    \/ CreateJoinRequest(p)
    \/ LoadPendingRequests(p)
    \/ DequeueAndCount(p)
    \/ AdmitOrReject(p)
    \/ SaveAdmitted(p)
    \/ RefreshFromDb(p)

\* ------------------------------------------------ trainer_bookings/priority.py

\* calculate_booking_priority: datetime.combine(date, time).timestamp(), the
\* seconds since the epoch of the requested date and time (time zone UTC)
calculate_booking_priority(date, time) == date * SecondsPerDay + time

\* -------------------------------------------------- trainer_bookings/models.py

\* TrainerBooking(client, trainer, requested_date, requested_time): the defaults
\* are priority_score 0, status 'pending' and processed_at NULL
NewBooking(c, t, date, time) ==
    [client |-> c, trainer |-> t, requested_date |-> date, requested_time |-> time,
     priority_score |-> 0, status |-> "pending", processed_at |-> NULL]

\* --------------------------------------------------- trainer_bookings/views.py

PendingForAnyTrainer(t) ==
    {i \in 1..Len(bookings) : bookings[i].status = "pending"}

\* TrainerBooking.objects.filter(trainer_id=trainer_id, status='pending'): row ids
PendingFor(t) ==
    {i \in 1..Len(bookings) : bookings[i].trainer = t /\ bookings[i].status = "pending"}

Unordered(ids) ==
    {o \in [1..Cardinality(ids) -> ids] :
        \A i, j \in 1..Cardinality(ids) : i # j => o[i] # o[j]}

\* .order_by('priority_score'): the rows by priority_score ascending.  The
\* explicit order_by replaces Meta.ordering, so created_at is no part of the
\* ORDER BY clause and the database returns rows of equal priority_score in any
\* order: every such order is a result of the query.
OrderByPriorityScore(ids) ==
    {o \in [1..Cardinality(ids) -> ids] :
        /\ \A i, j \in 1..Cardinality(ids) : i # j => o[i] # o[j]
        /\ \A i, j \in 1..Cardinality(ids) :
              i < j => bookings[o[i]].priority_score <= bookings[o[j]].priority_score}

HasConflictTimeOnly(b, confirmed) ==
    \E i \in 1..Len(confirmed) : b.requested_time = confirmed[i].time

\* lines 159-164: the booking's slot is among the confirmed times
HasConflict(b, confirmed) ==
    \E i \in 1..Len(confirmed) :
       /\ b.requested_date = confirmed[i].date
       /\ b.requested_time = confirmed[i].time

CountAfterRejectSkipped(count) == count

\* line 184: processed_count += 1 in the reject branch
CountAfterReject(count) == count + 1

CanCancelUnlessCancelled(status) == status # "cancelled"

\* line 98: if booking.status == 'pending'
CanCancel(status) == status = "pending"

\* the view returns: its locals are dropped
BookingReturn(p, value) ==
    /\ bpc' = [bpc EXCEPT ![p] = "idle"]
    /\ returned' = [returned EXCEPT ![p] = value]
    /\ trainer_id' = [trainer_id EXCEPT ![p] = 0]
    /\ booking' = [booking EXCEPT ![p] = NoBooking]
    /\ pending_bookings' = [pending_bookings EXCEPT ![p] = <<>>]
    /\ confirmed_times' = [confirmed_times EXCEPT ![p] = <<>>]
    /\ processed_count' = [processed_count EXCEPT ![p] = 0]

\* another view starts: the history of the worker's last pass is dropped
ForgetPass(p) ==
    /\ pass_pending' = [pass_pending EXCEPT ![p] = {}]
    /\ pass_order' = [pass_order EXCEPT ![p] = <<>>]
    /\ pass_trainer' = [pass_trainer EXCEPT ![p] = 0]

\* create_booking, lines 41-60 (the second conjunct is the model's bound on the
\* number of bookings).  objects.create inserts the row with the default
\* priority_score 0.  The instance keeps requested_date and requested_time as
\* the strings of request.POST, so calculate_priority's datetime.combine raises
\* TypeError before it assigns or saves: the row keeps priority_score 0.
CreateBooking(p, c, t, date, time) ==
    /\ bpc[p] = "idle"
    /\ Len(bookings) < MaxBookings
    /\ bookings' = Append(bookings, NewBooking(c, t, date, time))
    /\ BookingReturn(p, NoReturn)
    /\ ForgetPass(p)
    /\ UNCHANGED <<session_vars, container_vars>>

\* cancel_booking, lines 96-98 and 102-105: get_object_or_404 (a booking of
\* another client is a 404 and changes nothing) and the status test
CancelBooking(p, u, id) ==
    /\ bpc[p] = "idle"
    /\ id \in 1..Len(bookings)
    /\ bookings[id].client = u
    /\ IF CanCancel(bookings[id].status)
       THEN /\ bpc' = [bpc EXCEPT ![p] = "cancel_save"]
            /\ booking' = [booking EXCEPT ![p] = [id |-> id, row |-> bookings[id]]]
            /\ returned' = [returned EXCEPT ![p] = NoReturn]
            /\ UNCHANGED <<trainer_id, pending_bookings, confirmed_times,
                           processed_count>>
       ELSE BookingReturn(p, NoReturn)
    /\ ForgetPass(p)
    /\ UNCHANGED bookings
    /\ UNCHANGED <<session_vars, container_vars>>

\* cancel_booking, lines 99-101: booking.status = 'cancelled'; booking.save()
SaveCancelled(p) ==
    /\ bpc[p] = "cancel_save"
    /\ bookings' = [bookings EXCEPT ![booking[p].id] =
                      [booking[p].row EXCEPT !.status = "cancelled"]]
    /\ BookingReturn(p, NoReturn)
    /\ UNCHANGED <<pass_pending, pass_order, pass_trainer>>
    /\ UNCHANGED <<session_vars, container_vars>>

\* process_trainer_bookings (lines 114-121), process_booking_queue lines 143-150:
\* the count query; with nothing pending the pass returns 0
ProcessBookingQueue(p, t) ==
    /\ bpc[p] = "idle"
    /\ pass_pending' = [pass_pending EXCEPT ![p] = PendingFor(t)]
    /\ pass_order' = [pass_order EXCEPT ![p] = <<>>]
    /\ pass_trainer' = [pass_trainer EXCEPT ![p] = t]
    /\ IF Cardinality(PendingFor(t)) = 0
       THEN BookingReturn(p, 0)
       ELSE /\ bpc' = [bpc EXCEPT ![p] = "fetch"]
            /\ trainer_id' = [trainer_id EXCEPT ![p] = t]
            /\ returned' = [returned EXCEPT ![p] = NoReturn]
            /\ UNCHANGED <<booking, pending_bookings, confirmed_times,
                           processed_count>>
    /\ UNCHANGED bookings
    /\ UNCHANGED <<session_vars, container_vars>>

\* process_booking_queue, lines 152-157: the for statement runs the query and
\* holds the rows as they were read
FetchPendingBookings(p) ==
    /\ bpc[p] = "fetch"
    /\ \E o \in OrderByPriorityScore(PendingFor(trainer_id[p])) :
         /\ pending_bookings' = [pending_bookings EXCEPT ![p] =
               [i \in 1..Len(o) |-> [id |-> o[i], row |-> bookings[o[i]]]]]
         /\ pass_order' = [pass_order EXCEPT ![p] = o]
    /\ confirmed_times' = [confirmed_times EXCEPT ![p] = <<>>]
    /\ processed_count' = [processed_count EXCEPT ![p] = 0]
    /\ bpc' = [bpc EXCEPT ![p] = "visit"]
    /\ UNCHANGED <<bookings, trainer_id, booking, returned, pass_pending,
                   pass_trainer>>
    /\ UNCHANGED <<session_vars, container_vars>>

\* process_booking_queue, lines 157-186: one iteration of the loop, or the
\* return when no row is left; save() writes the whole row as it was read
VisitBooking(p) ==
    /\ bpc[p] = "visit"
    /\ IF pending_bookings[p] = <<>>
       THEN /\ BookingReturn(p, processed_count[p])
            /\ UNCHANGED bookings
       ELSE LET b == Head(pending_bookings[p])
            IN /\ IF ~HasConflict(b.row, confirmed_times[p])
                  THEN /\ bookings' = [bookings EXCEPT ![b.id] =
                             [b.row EXCEPT !.status = "confirmed", !.processed_at = Now]]
                       /\ confirmed_times' = [confirmed_times EXCEPT ![p] =
                             Append(@, [date |-> b.row.requested_date,
                                        time |-> b.row.requested_time])]
                       /\ processed_count' = [processed_count EXCEPT ![p] = @ + 1]
                  ELSE /\ bookings' = [bookings EXCEPT ![b.id] =
                             [b.row EXCEPT !.status = "rejected", !.processed_at = Now]]
                       /\ processed_count' = [processed_count EXCEPT ![p] =
                             CountAfterReject(@)]
                       /\ UNCHANGED confirmed_times
               /\ pending_bookings' = [pending_bookings EXCEPT ![p] = Tail(@)]
               /\ UNCHANGED <<bpc, trainer_id, booking, returned>>
    /\ UNCHANGED <<pass_pending, pass_order, pass_trainer>>
    /\ UNCHANGED <<session_vars, container_vars>>

BookingStep(p) ==
    \/ \E c \in Clients, t \in Trainers, date \in Dates, time \in Times :
         CreateBooking(p, c, t, date, time)
    \/ \E u \in Users, id \in 1..MaxBookings : CancelBooking(p, u, id)
    \/ SaveCancelled(p)
    \/ \E t \in Trainers : ProcessBookingQueue(p, t)
    \/ FetchPendingBookings(p)
    \/ VisitBooking(p)

\* the statements of process_booking_queue
SchedulingStep(p) ==
    \/ \E t \in Trainers : ProcessBookingQueue(p, t)
    \/ FetchPendingBookings(p)
    \/ VisitBooking(p)

\* ------------------------------------- fitness_sessions/queue.py: the object

\* SessionJoinQueue.size
size(items) == Len(items)

\* SessionJoinQueue.peek: the front item (None, here NoRequest, if empty)
peek(items) == IF ~is_empty(items) THEN items[1] ELSE NoRequest

\* how a call ended: whether it found the container empty, the exception it
\* raised ("none": it returned) and the value it returned
Outcome(op, empty, value) ==
    [op |-> op, empty |-> empty, raised |-> "none", value |-> value]

NoCall == Outcome("none", TRUE, NoRequest)

\* queue.enqueue(item); the bound on the number of calls is the model's
QueueEnqueue(item) ==
    /\ Len(enqueued) < MaxEnqueues
    /\ queue_items' = enqueue(queue_items, item)
    /\ enqueued' = Append(enqueued, item)
    /\ queue_result' = Outcome("enqueue", is_empty(queue_items), NoRequest)
    /\ UNCHANGED <<dequeued, heap_vars, stack_vars, salt_vars>>
    /\ UNCHANGED <<session_vars, booking_vars>>

\* queue.dequeue(): lines 39-42 return the popped item, or None without raising
QueueDequeue ==
    /\ queue_items' = dequeue_rest(queue_items)
    /\ queue_result' = Outcome("dequeue", is_empty(queue_items), dequeue(queue_items))
    /\ dequeued' = IF is_empty(queue_items) THEN dequeued
                   ELSE Append(dequeued, dequeue(queue_items))
    /\ UNCHANGED <<enqueued, heap_vars, stack_vars, salt_vars>>
    /\ UNCHANGED <<session_vars, booking_vars>>

\* queue.peek(): lines 69-71 return the front item, or None without raising
QueuePeek ==
    /\ queue_result' = Outcome("peek", is_empty(queue_items), peek(queue_items))
    /\ UNCHANGED <<queue_items, enqueued, dequeued, heap_vars, stack_vars,
                   salt_vars>>
    /\ UNCHANGED <<session_vars, booking_vars>>

\* the calls a user of one SessionJoinQueue makes, one after another
QueueNext ==
    \/ \E item \in QueueItems : QueueEnqueue(item)
    \/ QueueDequeue
    \/ QueuePeek

\* ------------------------------------------------ trainer_bookings/min_heap.py

\* self.heap[index]: the code counts indices from 0
At(h, index) == h[index + 1]

\* MinHeap.is_empty
heap_is_empty(h) == Len(h) = 0

\* MinHeap.get_parent_index: (index - 1) // 2, the floor of the quotient
get_parent_index(index) == (index - 1) \div 2

\* MinHeap.get_left_child_index
get_left_child_index(index) == 2 * index + 1

\* MinHeap.get_right_child_index
get_right_child_index(index) == 2 * index + 2

\* MinHeap.has_parent
has_parent(index) == get_parent_index(index) >= 0

\* MinHeap.has_left_child
has_left_child(h, index) == get_left_child_index(index) < Len(h)

\* MinHeap.has_right_child
has_right_child(h, index) == get_right_child_index(index) < Len(h)

\* MinHeap.parent
parent(h, index) == At(h, get_parent_index(index))

\* MinHeap.left_child
left_child(h, index) == At(h, get_left_child_index(index))

\* MinHeap.right_child
right_child(h, index) == At(h, get_right_child_index(index))

\* MinHeap.swap
swap(h, index1, index2) ==
    [h EXCEPT ![index1 + 1] = At(h, index2), ![index2 + 1] = At(h, index1)]

\* MinHeap.get_min: the root, or None (here NoEntry) if empty
get_min(h) == IF heap_is_empty(h) THEN NoEntry ELSE At(h, 0)

SmallerThanParentNever(h, index) == FALSE

\* heapify_up, line 110: the loop test
SmallerThanParent(h, index) ==
    has_parent(index) /\ At(h, index).score < parent(h, index).score

RECURSIVE heapify_up(_, _)
\* MinHeap.heapify_up
heapify_up(h, index) ==
    IF SmallerThanParent(h, index)
    THEN heapify_up(swap(h, index, get_parent_index(index)), get_parent_index(index))
    ELSE h

\* MinHeap.insert
insert(h, item) == heapify_up(Append(h, item), Len(Append(h, item)) - 1)

LeftChildAlways(h, index) == get_left_child_index(index)

\* heapify_down, lines 155-160: the index of the smaller child
SmallerChildIndex(h, index) ==
    IF has_right_child(h, index) /\ right_child(h, index).score < left_child(h, index).score
    THEN get_right_child_index(index)
    ELSE get_left_child_index(index)

RECURSIVE heapify_down(_, _)
\* MinHeap.heapify_down
heapify_down(h, index) ==
    IF ~has_left_child(h, index) THEN h
    ELSE IF At(h, index).score < At(h, SmallerChildIndex(h, index)).score THEN h
    ELSE heapify_down(swap(h, index, SmallerChildIndex(h, index)),
                      SmallerChildIndex(h, index))

\* MinHeap.extract_min: the value returned
extract_min(h) == IF heap_is_empty(h) THEN NoEntry ELSE At(h, 0)

\* MinHeap.extract_min, lines 134-140: the heap it leaves
extract_min_rest(h) ==
    IF heap_is_empty(h) THEN h
    ELSE LET popped == SubSeq([h EXCEPT ![1] = At(h, Len(h) - 1)], 1, Len(h) - 1)
         IN IF ~heap_is_empty(popped) THEN heapify_down(popped, 0) ELSE popped

NoHeapCall == Outcome("none", TRUE, NoEntry)

\* heap.insert((score, item)): the item is the number of the call, so that
\* entries of equal score differ; the bound on the calls is the model's
HeapInsert(score) ==
    /\ Len(inserted) < MaxInserts
    /\ LET entry == [score |-> score, item |-> Len(inserted) + 1]
       IN /\ heap' = insert(heap, entry)
          /\ inserted' = Append(inserted, entry)
    /\ heap_result' = Outcome("insert", heap_is_empty(heap), NoEntry)
    /\ drained' = <<>>
    /\ UNCHANGED <<queue_vars, stack_vars, salt_vars>>
    /\ UNCHANGED <<session_vars, booking_vars>>

\* heap.extract_min(): lines 128-129 return None without raising
HeapExtractMin ==
    /\ heap' = extract_min_rest(heap)
    /\ heap_result' = Outcome("extract_min", heap_is_empty(heap), extract_min(heap))
    /\ drained' = IF heap_is_empty(heap) THEN drained
                  ELSE Append(drained, extract_min(heap))
    /\ UNCHANGED inserted
    /\ UNCHANGED <<queue_vars, stack_vars, salt_vars>>
    /\ UNCHANGED <<session_vars, booking_vars>>

\* heap.get_min(): lines 83-85 return None without raising
HeapGetMin ==
    /\ heap_result' = Outcome("get_min", heap_is_empty(heap), get_min(heap))
    /\ UNCHANGED <<heap, inserted, drained>>
    /\ UNCHANGED <<queue_vars, stack_vars, salt_vars>>
    /\ UNCHANGED <<session_vars, booking_vars>>

\* the calls a user of one MinHeap makes, one after another
HeapNext ==
    \/ \E score \in Scores : HeapInsert(score)
    \/ HeapExtractMin
    \/ HeapGetMin

\* ------------------------------------------------- fitness_sessions/stack.py

push_dropping_newest(items, item, m) ==
    IF Len(Append(items, item)) > m THEN items ELSE Append(items, item)

\* RecentSessionsStack.push: append, then pop(0) when over max_size
push(items, item, m) ==
    IF Len(Append(items, item)) > m THEN Tail(Append(items, item))
    ELSE Append(items, item)

\* RecentSessionsStack.pop: the value returned (None, here NoSession, if empty)
pop(items) == IF ~is_empty(items) THEN items[Len(items)] ELSE NoSession

\* RecentSessionsStack.pop: the items left by pop()
pop_rest(items) ==
    IF ~is_empty(items) THEN SubSeq(items, 1, Len(items) - 1) ELSE items

\* RecentSessionsStack.get_all: list(reversed(self.items))
get_all(items) == [j \in 1..Len(items) |-> items[Len(items) - j + 1]]

\* stack.push(item); the bound on the number of calls is the model's
StackPush(item) ==
    /\ Len(pushed) < MaxPushes
    /\ stack_items' = push(stack_items, item, max_size)
    /\ pushed' = Append(pushed, item)
    /\ stack_result' = Outcome("push", is_empty(stack_items), NoSession)
    /\ UNCHANGED <<max_size, popped_items>>
    /\ UNCHANGED <<queue_vars, heap_vars, salt_vars>>
    /\ UNCHANGED <<session_vars, booking_vars>>

\* stack.pop(): lines 51-54; popped_items records the items returned from a
\* non-empty stack, each with the number of pushes made before it
StackPop ==
    /\ stack_items' = pop_rest(stack_items)
    /\ stack_result' = Outcome("pop", is_empty(stack_items), pop(stack_items))
    /\ popped_items' =
          IF is_empty(stack_items) THEN popped_items
          ELSE Append(popped_items, [item |-> pop(stack_items), pushes |-> Len(pushed)])
    /\ UNCHANGED <<max_size, pushed>>
    /\ UNCHANGED <<queue_vars, heap_vars, salt_vars>>
    /\ UNCHANGED <<session_vars, booking_vars>>

\* the calls a user of one RecentSessionsStack makes, one after another
StackNext ==
    \/ \E item \in StackItems : StackPush(item)
    \/ StackPop

\* --------------------------------------------------- accounts/utils/salt.py

RECURSIVE BitXor(_, _)
\* a ^ b for integers a, b >= 0
BitXor(a, b) ==
    IF a = 0 THEN b
    ELSE IF b = 0 THEN a
    ELSE (((a % 2) + (b % 2)) % 2) + 2 * BitXor(a \div 2, b \div 2)

RECURSIVE MulMod(_, _, _)
\* (a * k) % n for 0 <= a < n, by k additions: no product above 2 * n is formed
MulMod(a, k, n) == IF k = 0 THEN 0 ELSE (MulMod(a, k - 1, n) + a) % n

\* x % (2**32), from the two 16-bit halves of x
Mod2p32(x) == (((x \div 65536) % 65536) * 65536) + (x % 65536)

\* line 15: s1 = (s1 + v * (i + 7)) % 1_000_000_007
NextS1(a, v, idx) == (a + (v * (idx + 7))) % Modulus1

\* line 16: s2 = (s2 * 33 + v) % 1_000_000_009
NextS2(b, v) == (MulMod(b % Modulus2, 33, Modulus2) + v) % Modulus2

HexDigits ==
    <<"0", "1", "2", "3", "4", "5", "6", "7", "8", "9", "a", "b", "c", "d", "e", "f">>

RECURSIVE format_x(_)
\* f"{n:x}" for n >= 0: the hexadecimal digits of n, lowercase
format_x(n) ==
    IF n < 16 THEN <<HexDigits[n + 1]>>
    ELSE Append(format_x(n \div 16), HexDigits[(n % 16) + 1])

format_unpadded(n) == format_x(n)

\* f"{n:08x}": format_x padded on the left with "0" to at least 8 characters
format_08x(n) ==
    [j \in 1..(8 - Len(format_x(n))) |-> "0"] \o format_x(n)

\* generate, lines 12-21: one iteration of the loop
SaltStep ==
    /\ salt_i < Len(seed_text)
    /\ salt = <<>>
    /\ LET v == seed_text[salt_i + 1]
           a == NextS1(s1, v, salt_i)
           b == NextS2(s2, v)
           a2 == IF salt_i % 4 = 0 THEN BitXor(a, b) ELSE a
           b2 == IF salt_i % 6 = 0 THEN BitXor(b, a2) ELSE b
       IN /\ s1' = a2
          /\ s2' = b2
    /\ salt_i' = salt_i + 1
    /\ UNCHANGED <<seed_text, salt>>
    /\ UNCHANGED <<queue_vars, heap_vars, stack_vars>>
    /\ UNCHANGED <<session_vars, booking_vars>>

\* generate, line 24: the string returned
SaltReturn ==
    /\ salt_i = Len(seed_text)
    /\ salt = <<>>
    /\ salt' = format_08x(s1) \o format_08x(s2) \o format_08x(BitXor(s1, s2))
                  \o format_08x(Mod2p32(s1 + s2))
    /\ UNCHANGED <<seed_text, salt_i, s1, s2>>
    /\ UNCHANGED <<queue_vars, heap_vars, stack_vars>>
    /\ UNCHANGED <<session_vars, booking_vars>>

\* NEASaltGenerator(seed_text).generate()
SaltNext == SaltStep \/ SaltReturn

\* ------------------------------------------------------------ initial states

WorkersIdle ==
    /\ pc = [p \in Procs |-> "idle"]
    /\ view_user = [p \in Procs |-> 0]
    /\ view_session = [p \in Procs |-> 0]
    /\ join_request = [p \in Procs |-> NoRequest]
    /\ queue = [p \in Procs |-> <<>>]
    /\ current_request = [p \in Procs |-> NoRequest]
    /\ current_count = [p \in Procs |-> 0]
    /\ message = [p \in Procs |-> "none"]
    /\ pass_start = [p \in Procs |-> NoPass]
    /\ full_reported = {}

BookingWorkersIdle ==
    /\ bpc = [p \in Procs |-> "idle"]
    /\ trainer_id = [p \in Procs |-> 0]
    /\ booking = [p \in Procs |-> NoBooking]
    /\ pending_bookings = [p \in Procs |-> <<>>]
    /\ confirmed_times = [p \in Procs |-> <<>>]
    /\ processed_count = [p \in Procs |-> 0]
    /\ returned = [p \in Procs |-> NoReturn]
    /\ pass_pending = [p \in Procs |-> {}]
    /\ pass_order = [p \in Procs |-> <<>>]
    /\ pass_trainer = [p \in Procs |-> 0]

\* SessionJoinQueue.__init__ and MinHeap.__init__: no call made yet
ContainersEmpty ==
    /\ queue_items = <<>>
    /\ queue_result = NoCall
    /\ enqueued = <<>>
    /\ dequeued = <<>>
    /\ heap = <<>>
    /\ heap_result = NoHeapCall
    /\ inserted = <<>>
    /\ drained = <<>>

\* RecentSessionsStack.__init__(max_size=m): no call made yet
StackEmpty(m) ==
    /\ stack_items = <<>>
    /\ max_size = m
    /\ stack_result = NoCall
    /\ pushed = <<>>
    /\ popped_items = <<>>

\* generate, lines 9-10, for NEASaltGenerator(seed)
SaltStart(seed) ==
    /\ seed_text = seed
    /\ salt_i = 0
    /\ s1 = 0
    /\ s2 = 1
    /\ salt = <<>>

\* sessions exist with a capacity >= 0; nobody has joined or asked to
Init ==
    /\ capacity \in [SessionIds -> 0..MaxCapacity]
    /\ participants = {}
    /\ participant_rows = RowsOf(participants)
    /\ requests = <<>>
    /\ WorkersIdle
    /\ bookings = <<>>
    /\ BookingWorkersIdle
    /\ ContainersEmpty
    /\ StackEmpty(DefaultMaxSize)
    /\ SaltStart(<<>>)

\* the views executed one at a time: one worker
Next == SessionStep(1)

Spec == Init /\ [][Next]_vars

\* the views executed by all workers, their statements interleaved
ConcNext == \E p \in Procs : SessionStep(p)

ConcSpec == Init /\ [][ConcNext]_vars

\* the views executed by all workers; a worker that has started a view runs it
\* to its end, while nothing obliges a user to send a new request
ConcFairSpec ==
    /\ Init
    /\ [][ConcNext]_vars
    /\ \A p \in Procs : WF_vars(Continue(p))

\* one SessionJoinQueue and its caller
QueueSpec == Init /\ [][QueueNext]_vars

\* one MinHeap and its caller
HeapSpec == Init /\ [][HeapNext]_vars

\* a RecentSessionsStack of any max_size >= 1
StackInit ==
    /\ capacity \in [SessionIds -> {MaxCapacity}]
    /\ participants = {}
    /\ participant_rows = RowsOf(participants)
    /\ requests = <<>>
    /\ WorkersIdle
    /\ bookings = <<>>
    /\ BookingWorkersIdle
    /\ ContainersEmpty
    /\ \E m \in 1..MaxStackSize : StackEmpty(m)
    /\ SaltStart(<<>>)

\* one RecentSessionsStack and its caller
StackSpec == StackInit /\ [][StackNext]_vars

\* the seed strings: every string of at most MaxSeedLen characters of Chars
Seeds == UNION {[1..n -> Chars] : n \in 0..MaxSeedLen}

\* NEASaltGenerator(seed_text) for any seed
SaltInit ==
    /\ capacity \in [SessionIds -> {MaxCapacity}]
    /\ participants = {}
    /\ participant_rows = RowsOf(participants)
    /\ requests = <<>>
    /\ WorkersIdle
    /\ bookings = <<>>
    /\ BookingWorkersIdle
    /\ ContainersEmpty
    /\ StackEmpty(DefaultMaxSize)
    /\ \E seed \in Seeds : SaltStart(seed)

\* one call of generate
SaltSpec == SaltInit /\ [][SaltNext]_vars

\* the booking views executed by all workers, their statements interleaved,
\* from an empty table
BookingConcNext == \E p \in Procs : BookingStep(p)

BookingConcSpec == Init /\ [][BookingConcNext]_vars

\* ---------------------------------------------------- one admission pass

\* the tables one pass can find: requests of any users, a pass having processed
\* the earlier ones of a session and left the later ones, and participants,
\* each admitted by a request of theirs, within the capacity
PassInit ==
    /\ capacity \in [SessionIds -> 0..MaxCapacity]
    /\ \E n \in 0..MaxRequests :
         requests \in [1..n -> {r \in [session : SessionIds, user : Users,
                                       processed : BOOLEAN, success : BOOLEAN] :
                                  r.success => r.processed}]
    /\ participants \in SUBSET (SessionIds \X Users)
    /\ \A pr \in participants :
         \E i \in 1..Len(requests) :
            /\ requests[i].session = pr[1] /\ requests[i].user = pr[2]
            /\ requests[i].success
    /\ \A s \in SessionIds : get_current_participants_count(s) <= capacity[s]
    /\ \A i, j \in 1..Len(requests) :
         (i < j /\ requests[i].session = requests[j].session /\ requests[j].processed)
            => requests[i].processed
    /\ \E s \in SessionIds :
         /\ pc = [p \in Procs |-> IF p = 1 THEN "load" ELSE "idle"]
         /\ view_session = [p \in Procs |-> IF p = 1 THEN s ELSE 0]
    /\ view_user = [p \in Procs |-> 0]
    /\ join_request = [p \in Procs |-> NoRequest]
    /\ queue = [p \in Procs |-> <<>>]
    /\ current_request = [p \in Procs |-> NoRequest]
    /\ current_count = [p \in Procs |-> 0]
    /\ message = [p \in Procs |-> "none"]
    /\ pass_start = [p \in Procs |-> NoPass]
    /\ full_reported = {}
    /\ participant_rows = RowsOf(participants)
    /\ bookings = <<>>
    /\ BookingWorkersIdle
    /\ ContainersEmpty
    /\ StackEmpty(DefaultMaxSize)
    /\ SaltStart(<<>>)

\* process_join_queue(session_id) run alone, from its first statement to its return
PassNext ==
    \/ LoadPendingRequests(1)
    \/ DequeueAndCount(1)
    \/ AdmitOrReject(1)
    \/ SaveAdmitted(1)

PassSpec == PassInit /\ [][PassNext]_vars

\* ------------------------------------------------------ trainer bookings

\* the bookings a pass can find: rows still pending, and rows of sessions that
\* have taken place (completed, set outside these views); priority_score is the
\* default 0 or the value calculate_priority stores
BookingRows ==
    {b \in [client : Clients, trainer : Trainers, requested_date : Dates,
            requested_time : Times,
            priority_score : {0} \cup {calculate_booking_priority(d, tm) :
                                         d \in Dates, tm \in Times},
            status : {"pending", "completed"}, processed_at : {NULL, Now}] :
        /\ b.priority_score \in
              {0, calculate_booking_priority(b.requested_date, b.requested_time)}
        /\ (b.status = "pending") = (b.processed_at = NULL)}

BookingInit ==
    /\ capacity \in [SessionIds -> {MaxCapacity}]
    /\ participants = {}
    /\ participant_rows = RowsOf(participants)
    /\ requests = <<>>
    /\ WorkersIdle
    /\ \E n \in 0..MaxBookings : bookings \in [1..n -> BookingRows]
    /\ BookingWorkersIdle
    /\ ContainersEmpty
    /\ StackEmpty(DefaultMaxSize)
    /\ SaltStart(<<>>)

\* the booking views executed one at a time: one worker
BookingNext == BookingStep(1)

BookingSpec == BookingInit /\ [][BookingNext]_vars

\* scheduling passes of all workers, their statements interleaved
SchedulingConcNext == \E p \in Procs : SchedulingStep(p)

SchedulingConcSpec == BookingInit /\ [][SchedulingConcNext]_vars

\* passes run one at a time over the tables they can find: an admission pass
\* over drawn join requests, or scheduling passes over drawn bookings
PassesInit == PassInit \/ BookingInit

PassesNext == PassNext \/ SchedulingStep(1)

PassesSpec == PassesInit /\ [][PassesNext]_vars

\* ------------------------------------------------- several resources

\* two sessions, each served by a worker of its own
TwoSessions == {1, 2}

\* the trainers that have bookings
TrainersWithBookings == {bookings[i].trainer : i \in 1..Len(bookings)}

\* two sessions nobody has joined and no booking, or no session and the
\* bookings of several trainers
ResourcesInit ==
    /\ \/ /\ capacity \in [TwoSessions -> 0..MaxCapacity]
          /\ bookings = <<>>
       \/ /\ capacity = <<>>
          /\ \E n \in 0..MaxBookings : bookings \in [1..n -> BookingRows]
    /\ participants = {}
    /\ participant_rows = RowsOf(participants)
    /\ requests = <<>>
    /\ WorkersIdle
    /\ BookingWorkersIdle
    /\ ContainersEmpty
    /\ StackEmpty(DefaultMaxSize)
    /\ SaltStart(<<>>)

\* worker s runs the join attempts (and so the passes) of session s and worker
\* t the scheduling passes of trainer t, so that the passes of different
\* resources interleave
ResourcesNext ==
    \/ \E s \in DOMAIN capacity, u \in Users : JoinSession(s, u, s)
    \/ \E s \in DOMAIN capacity : CreateJoinRequest(s)
    \/ \E s \in DOMAIN capacity : LoadPendingRequests(s)
    \/ \E s \in DOMAIN capacity : DequeueAndCount(s)
    \/ \E s \in DOMAIN capacity : AdmitOrReject(s)
    \/ \E s \in DOMAIN capacity : SaveAdmitted(s)
    \/ \E s \in DOMAIN capacity : RefreshFromDb(s)
    \/ \E t \in TrainersWithBookings : ProcessBookingQueue(t, t)
    \/ \E t \in Trainers : FetchPendingBookings(t)
    \/ \E t \in Trainers : VisitBooking(t)

ResourcesSpec == ResourcesInit /\ [][ResourcesNext]_vars

\* ------------------------------------------------------------------ claims

Min(a, b) == IF a < b THEN a ELSE b

\* C1: with the views executed one at a time, the number of participant rows
\* of a session never exceeds its capacity.
CapacityInvariant ==
    \A s \in DOMAIN capacity : get_current_participants_count(s) <= capacity[s]

\* C1 witness: a session with capacity >= 1 is full and a join attempt on it
\* has been refused.
CapacityWitness ==
    \E s \in DOMAIN capacity :
       /\ capacity[s] >= 1
       /\ get_current_participants_count(s) = capacity[s]
       /\ \E i \in 1..Len(requests) :
            requests[i].session = s /\ requests[i].processed /\ ~requests[i].success
       /\ message[1] = "full"

\* C2: with join attempts interleaved statement by statement, the number of
\* participant rows of a session never exceeds its capacity.
ConcurrentCapacityInvariant ==
    \A s \in DOMAIN capacity :
       Cardinality({pr \in participants : pr[1] = s}) <= capacity[s]

\* C5: a pass that has returned, having loaded n requests with k free places,
\* has admitted exactly the first min(k, n) of them (one participant each),
\* has refused the (k+1)-th and has left the later ones unprocessed.
AdmissionFairness ==
    (pc[1] = "idle" /\ pass_start[1] # NoPass) =>
       LET ids == pass_start[1].pending
           s == pass_start[1].session
           n == Len(ids)
           k == capacity[s] - pass_start[1].count
       IN /\ \A j \in 1..n :
               /\ j <= Min(k, n) =>
                     /\ requests[ids[j]].processed /\ requests[ids[j]].success
                     /\ <<s, requests[ids[j]].user>> \in participants
               /\ j = k + 1 => requests[ids[j]].processed /\ ~requests[ids[j]].success
               /\ j > k + 1 => ~requests[ids[j]].processed /\ ~requests[ids[j]].success
          /\ get_current_participants_count(s) = pass_start[1].count + Min(k, n)

FreePlace(s) == get_current_participants_count(s) < capacity[s]

\* request i is unprocessed while its session has a free place
Waiting(i) ==
    /\ i <= Len(requests)
    /\ ~requests[i].processed
    /\ FreePlace(requests[i].session)

\* C6: a request does not stay unprocessed for ever while its session has a
\* free place: once a place is free (a participant has left), a pass is
\* eventually run that processes the request.
ReconsideredWhenFreed ==
    \A i \in 1..MaxRequests : Waiting(i) ~> ~Waiting(i)

\* ---------------------------------------------------------- booking claims

SameSlot(a, b) ==
    /\ a.trainer = b.trainer
    /\ a.requested_date = b.requested_date
    /\ a.requested_time = b.requested_time

\* C3: in every reachable state at most one confirmed booking exists per
\* (trainer, requested_date, requested_time).
OneConfirmedPerSlot ==
    \A i, j \in 1..Len(bookings) :
       (i # j /\ SameSlot(bookings[i], bookings[j]))
          => ~(bookings[i].status = "confirmed" /\ bookings[j].status = "confirmed")

\* C4: when the scheduling passes of all workers have returned, no two
\* bookings of one trainer on the same date and time are both confirmed.
NoDoubleConfirmAfterPasses ==
    (\A p \in Procs : bpc[p] = "idle") =>
       ~ \E i, j \in 1..Len(bookings) :
            /\ i < j
            /\ SameSlot(bookings[i], bookings[j])
            /\ bookings[i].status = "confirmed"
            /\ bookings[j].status = "confirmed"

\* worker 1's scheduling pass has returned and nothing has run since
PassReturned == bpc[1] = "idle" /\ returned[1] # NoReturn

\* C7: after a pass, a booking it took is rejected exactly when a booking it
\* took earlier on the same slot was confirmed, and is confirmed otherwise; of
\* two bookings alone on a slot the one with the lower score is confirmed and
\* the other rejected; bookings on pairwise distinct slots are all confirmed.
ConflictResolution ==
    PassReturned =>
       LET o == pass_order[1]
           n == Len(o)
           b(i) == bookings[o[i]]
       IN /\ \A i \in 1..n :
               /\ b(i).status \in {"confirmed", "rejected"}
               /\ (b(i).status = "rejected") <=>
                     \E j \in 1..(i - 1) :
                        SameSlot(b(i), b(j)) /\ b(j).status = "confirmed"
          /\ \A i, j \in 1..n :
               (/\ SameSlot(b(i), b(j))
                /\ b(i).priority_score < b(j).priority_score
                /\ \A k \in 1..n : SameSlot(b(k), b(i)) => k \in {i, j})
                  => b(i).status = "confirmed" /\ b(j).status = "rejected"
          /\ (\A i, j \in 1..n : i # j => ~SameSlot(b(i), b(j)))
                => \A i \in 1..n : b(i).status = "confirmed"

\* C7 witness: a pass has taken two bookings of one slot with scores s1 < s2,
\* confirmed the first and rejected the second.
ConflictResolutionWitness ==
    /\ PassReturned
    /\ Len(pass_order[1]) = 2
    /\ LET x == bookings[pass_order[1][1]]
           y == bookings[pass_order[1][2]]
       IN /\ SameSlot(x, y)
          /\ x.priority_score < y.priority_score
          /\ x.status = "confirmed"
          /\ y.status = "rejected"

\* C8: a pass takes the pending bookings by priority_score ascending, ties by
\* creation ascending, so among bookings of equal score on one slot the one
\* created first is confirmed and the later-created ones are rejected.
TieBrokenByCreation ==
    PassReturned =>
       LET o == pass_order[1]
       IN /\ \A i, j \in 1..Len(o) :
               i < j =>
                  \/ bookings[o[i]].priority_score < bookings[o[j]].priority_score
                  \/ /\ bookings[o[i]].priority_score = bookings[o[j]].priority_score
                     /\ o[i] < o[j]
          /\ \A x, y \in pass_pending[1] :
               (/\ x < y
                /\ SameSlot(bookings[x], bookings[y])
                /\ bookings[x].priority_score = bookings[y].priority_score)
                  => bookings[y].status = "rejected"

\* C9: when a pass returns, every booking that was pending for the trainer at
\* its start is confirmed or rejected with processed_at set, and the value
\* returned is the number of those bookings.
ExhaustivePass ==
    PassReturned =>
       /\ \A i \in pass_pending[1] :
             /\ bookings[i].status \in {"confirmed", "rejected"}
             /\ bookings[i].processed_at # NULL
       /\ returned[1] = Cardinality(pass_pending[1])

\* C9 witness: a pass over two pending bookings has returned 2, one of them
\* rejected.
ExhaustivePassWitness ==
    /\ PassReturned
    /\ Cardinality(pass_pending[1]) = 2
    /\ returned[1] = 2
    /\ \E i \in pass_pending[1] : bookings[i].status = "rejected"

\* C10: under passes and cancellations executed one at a time, a booking
\* whose status is not pending keeps its status.
AbsorbingStatuses ==
    [][\A i \in 1..Len(bookings) :
          bookings[i].status # "pending" => bookings'[i].status = bookings[i].status]_vars

\* C10 witness: with a cancelled booking and a confirmed, rejected or
\* completed one in the table, a pass has run and found nothing pending.
AbsorbingStatusesWitness ==
    /\ PassReturned
    /\ returned[1] = 0
    /\ \E i, j \in 1..Len(bookings) :
          /\ bookings[i].status = "cancelled"
          /\ bookings[j].status \in {"confirmed", "rejected", "completed"}

\* C11: a booking that cancel_booking has set to cancelled stays cancelled,
\* also when a scheduling pass that read it as pending is still running: the
\* pass never writes confirmed or rejected over it.
CancelledStaysCancelled ==
    [][\A i \in 1..Len(bookings) :
          bookings[i].status = "cancelled" => bookings'[i].status = "cancelled"]_vars

\* ------------------------------------------------------- container claims

\* C12: the items returned by dequeue from a non-empty queue are, in order,
\* the first of the items enqueued, and size() is the number enqueued minus
\* the number so dequeued.
QueueFifo ==
    /\ Len(dequeued) <= Len(enqueued)
    /\ dequeued = SubSeq(enqueued, 1, Len(dequeued))
    /\ size(queue_items) = Len(enqueued) - Len(dequeued)

\* C12 witness: two different items have been dequeued in the order they were
\* enqueued, while later items wait.
QueueFifoWitness ==
    /\ Len(dequeued) >= 2
    /\ dequeued[1] # dequeued[2]
    /\ size(queue_items) >= 1
    /\ queue_result.op = "dequeue"

\* C13: dequeue() and peek() on an empty queue signal EmptyError.
EmptyQueueSignalsError ==
    (queue_result.op \in {"dequeue", "peek"} /\ queue_result.empty)
       => queue_result.raised = "EmptyError"

\* C14: after every insert and extract_min the array satisfies
\* heap[(i-1)//2].score <= heap[i].score for every index i >= 1.
HeapProperty ==
    \A i \in 1..(Len(heap) - 1) :
       At(heap, get_parent_index(i)).score <= At(heap, i).score

\* C14 witness: an extract_min has left three or more entries, two of them of
\* equal score.
HeapPropertyWitness ==
    /\ heap_result.op = "extract_min"
    /\ Len(heap) >= 3
    /\ \E i, j \in 1..Len(heap) : i # j /\ heap[i].score = heap[j].score

\* the number of times entry e is in the array h
Count(h, e) == Cardinality({i \in 1..Len(h) : h[i] = e})

\* C15: extract_min on a non-empty heap returns an entry of the least score
\* stored and removes that one entry and no other; so the entries extracted
\* after the last insert come in non-decreasing score order, none above a
\* score still stored.
ExtractMinReturnsMinimum ==
    /\ [](\A i \in 1..Len(drained) :
             /\ \A j \in 1..Len(heap) : drained[i].score <= heap[j].score
             /\ \A j \in (i + 1)..Len(drained) : drained[i].score <= drained[j].score)
    /\ [][(heap_result'.op = "extract_min" /\ ~heap_is_empty(heap)) =>
             /\ Count(heap, heap_result'.value) >= 1
             /\ \A i \in 1..Len(heap) : heap_result'.value.score <= heap[i].score
             /\ Len(heap') = Len(heap) - 1
             /\ \A i \in 1..Len(heap) :
                   Count(heap', heap[i]) =
                      Count(heap, heap[i]) - (IF heap[i] = heap_result'.value THEN 1 ELSE 0)]_vars

\* C15 witness: the inserts (5,x), (2,y), (8,z), (1,w), the items being calls
\* 1 to 4, have drained as w, y, x, z.
ExtractMinExampleWitness ==
    /\ [i \in 1..Len(inserted) |-> inserted[i].score] = <<5, 2, 8, 1>>
    /\ heap = <<>>
    /\ [i \in 1..Len(drained) |-> drained[i].item] = <<4, 2, 1, 3>>
    /\ [i \in 1..Len(drained) |-> drained[i].score] = <<1, 2, 5, 8>>

\* C16: extract_min() and get_min() on an empty heap signal EmptyError.
EmptyHeapSignalsError ==
    (heap_result.op \in {"extract_min", "get_min"} /\ heap_result.empty)
       => heap_result.raised = "EmptyError"

\* ----------------------------------------------------- frame and failures

\* C17: with the passes run one at a time, no pass deletes a request or
\* changes a request that is processed, and a scheduling pass that follows a
\* returned pass for the same trainer returns 0 and changes no booking.
DecidedItemsExcluded ==
    [][/\ Len(requests') >= Len(requests)
       /\ \A i \in 1..Len(requests) :
             requests[i].processed => requests'[i] = requests[i]
       /\ (/\ PassReturned
           /\ pass_trainer[1] # 0
           /\ pass_trainer'[1] = pass_trainer[1]
           /\ booking_vars' # booking_vars)
             => /\ returned'[1] = 0
                /\ bpc'[1] = "idle"
                /\ bookings' = bookings]_vars

\* C17 witness: a pass has decided a trainer's bookings and the pass run next
\* for that trainer has returned 0.
DecidedItemsExcludedWitness ==
    /\ PassReturned
    /\ returned[1] = 0
    /\ \E i \in 1..Len(bookings) :
          /\ bookings[i].trainer = pass_trainer[1]
          /\ bookings[i].status \in {"confirmed", "rejected"}

\* C18: no admission pass ends with an error.
PassThrowsNoError == \A p \in Procs : message[p] # "error"

\* C19: in no state that another operation can observe does the participant
\* row of an admission exist while its request is still unprocessed.
IterationAtomic ==
    \A p \in Procs :
       pc[p] = "save" =>
          ~ /\ <<view_session[p], requests[current_request[p]].user>> \in participants
            /\ ~requests[current_request[p]].processed

\* C20: every booking a scheduling pass has read as pending has priority_score
\* equal to the epoch seconds of its requested date and time.
PendingScoreIsEpochSeconds ==
    \A p \in Procs :
       \A k \in 1..Len(pending_bookings[p]) :
          pending_bookings[p][k].row.priority_score =
             calculate_booking_priority(pending_bookings[p][k].row.requested_date,
                                        pending_bookings[p][k].row.requested_time)

\* --------------------------------------------------- claims on resources

\* C21: a step of an admission pass for session S changes no participant and
\* no join request of another session, and a step of a scheduling pass for
\* trainer T changes no booking of another trainer.
ResourcesIndependent ==
    [][/\ \A p \in Procs :
             (pc[p] \in {"load", "loop", "decide", "save"} /\ pc'[p] # pc[p]) =>
                /\ Len(requests') = Len(requests)
                /\ \A i \in 1..Len(requests) :
                      requests[i].session # view_session[p] => requests'[i] = requests[i]
                /\ {pr \in participants' : pr[1] # view_session[p]} =
                      {pr \in participants : pr[1] # view_session[p]}
       /\ \A p \in Procs :
             (/\ bpc[p] \in {"fetch", "visit"}
              /\ <<bpc'[p], pending_bookings'[p]>> # <<bpc[p], pending_bookings[p]>>) =>
                \A i \in 1..Len(bookings) :
                   bookings[i].trainer # trainer_id[p] => bookings'[i] = bookings[i]]_vars

\* C21 witness: the passes of two sessions are both under way, each having
\* inserted a participant of its session.
ResourcesIndependentWitness ==
    /\ DOMAIN capacity = TwoSessions
    /\ pc[1] = "save" /\ pc[2] = "save"
    /\ view_session[1] # view_session[2]
    /\ \E u, v \in Users : {<<view_session[1], u>>, <<view_session[2], v>>} \subseteq participants

\* ------------------------------------------------ claims on salt and stack

\* C22: generate returns exactly 32 lowercase hexadecimal characters, each of
\* s1, s2, s1 XOR s2 and (s1 + s2) mod 2^32 being a non-negative integer below
\* 2^32 (its quotient by 2^16 is below 2^16) when the loop ends.
SaltIsThirtyTwoHexDigits ==
    /\ salt_i = Len(seed_text) =>
          \A n \in {s1, s2, BitXor(s1, s2), Mod2p32(s1 + s2)} :
             n >= 0 /\ n \div 65536 < 65536
    /\ salt # <<>> =>
          /\ Len(salt) = 32
          /\ \A j \in 1..Len(salt) : \E d \in 1..16 : salt[j] = HexDigits[d]

\* C22 witness: generate has returned for a seed of seven or more characters,
\* one of them not ASCII, so that both XOR branches have run more than once.
SaltWitness ==
    /\ salt # <<>>
    /\ Len(seed_text) >= 7
    /\ \E j \in 1..Len(seed_text) : seed_text[j] > 127

\* C26: the stack never holds more than max_size items; after n pushes and no
\* pop it holds the last min(n, max_size) items pushed, in push order, and
\* get_all lists them most recent first; pops made after the pushes return the
\* items pushed last, most recent first.
RecentStackKeepsLastPushes ==
    LET n == Len(pushed)
        k == Len(popped_items)
        kept == Min(n, max_size)
    IN /\ size(stack_items) <= max_size
       /\ k = 0 =>
             /\ stack_items = SubSeq(pushed, n - kept + 1, n)
             /\ get_all(stack_items) = [j \in 1..kept |-> pushed[n - j + 1]]
       /\ (k > 0 /\ popped_items[1].pushes = n) =>
             /\ k <= kept
             /\ \A j \in 1..k : popped_items[j].item = pushed[n - j + 1]
             /\ stack_items = SubSeq(pushed, n - kept + 1, n - k)

\* C26 witness: more items than max_size >= 2 were pushed, two equal ones
\* among those kept, and two pops have followed.
RecentStackWitness ==
    /\ max_size >= 2
    /\ Len(pushed) > max_size
    /\ pushed[Len(pushed)] = pushed[Len(pushed) - 1]
    /\ Len(popped_items) = 2
    /\ popped_items[1].pushes = Len(pushed)

\* ------------------------------------------------------ claims on the heap

RECURSIVE insert_all(_, _)
\* for entry in entries: heap.insert(entry)
insert_all(h, entries) ==
    IF entries = <<>> THEN h
    ELSE insert_all(insert(h, Head(entries)), Tail(entries))

RECURSIVE drain(_)
\* while not heap.is_empty(): heap.extract_min(), the entries in order
drain(h) ==
    IF heap_is_empty(h) THEN <<>>
    ELSE <<extract_min(h)>> \o drain(extract_min_rest(h))

\* the bookings ids, in the order of the sequence ins, as heap entries
HeapEntries(ins) ==
    [j \in 1..Len(ins) |-> [score |-> bookings[ins[j]].priority_score, item |-> ins[j]]]

\* C24: when the pending bookings of a pass have pairwise distinct scores,
\* the order in which the pass took them is the order in which a MinHeap
\* gives them back, whatever the order they are inserted in.
PassOrderIsHeapOrder ==
    (/\ PassReturned
     /\ \A x, y \in pass_pending[1] :
           x # y => bookings[x].priority_score # bookings[y].priority_score) =>
       \A ins \in Unordered(pass_pending[1]) :
          LET out == drain(insert_all(<<>>, HeapEntries(ins)))
          IN [k \in 1..Len(out) |-> out[k].item] = pass_order[1]

\* C24 witness: a pass has taken two bookings of distinct scores, the one
\* created later first.
PassOrderIsHeapOrderWitness ==
    /\ PassReturned
    /\ Len(pass_order[1]) = 2
    /\ pass_order[1][1] > pass_order[1][2]
    /\ bookings[pass_order[1][1]].priority_score
          < bookings[pass_order[1][2]].priority_score

\* ------------------------------------------------ claims on admission

\* C25: no <<session, user>> has more than one participant row.
UniqueParticipant ==
    \A pr \in DOMAIN participant_rows : participant_rows[pr] <= 1

\* C25 witness: the admission of a user who is a participant already, for a
\* second pending request of theirs, has been refused.
UniqueParticipantWitness ==
    \E p \in Procs :
       /\ message[p] = "error"
       /\ \E i, j \in 1..Len(requests) :
             /\ i < j
             /\ requests[i].user = requests[j].user
             /\ requests[i].success
             /\ ~requests[j].processed
             /\ <<requests[i].session, requests[i].user>> \in participants

\* C27: with the views run one at a time, when a view has returned no request
\* is left with processed = false, and each pass found at most one request.
SequentialLeavesNonePending ==
    /\ pc[1] = "idle" => \A i \in 1..Len(requests) : requests[i].processed
    /\ Len(pass_start[1].pending) <= 1

\* C27 witness: a join attempt has ended at the early stop ('Session is
\* full') after an earlier admission, and every request is processed.
SequentialLeavesNonePendingWitness ==
    /\ pc[1] = "idle"
    /\ message[1] = "full"
    /\ Len(requests) >= 2
    /\ requests[1].success
    /\ ~requests[Len(requests)].success
    /\ \A i \in 1..Len(requests) : requests[i].processed

\* C28: once join_session has reported 'Session is full' for a request, no
\* pass inserts a participant for that request.
ReportedFullIsFinal ==
    [][\A p \in Procs :
          (pc[p] = "decide" /\ pc'[p] = "save") => current_request[p] \notin full_reported]_vars

\* C29: no request is admitted (success = true) while a request of the same
\* session created earlier is unprocessed.
ArrivalOrderRespected ==
    \A i, j \in 1..Len(requests) :
       (i < j /\ requests[i].session = requests[j].session /\ requests[j].success)
          => requests[i].processed

\* C29 witness: with passes interleaved, a request has been admitted after an
\* earlier request of the session was refused.
ArrivalOrderWitness ==
    /\ \E i, j \in 1..Len(requests) :
          /\ i < j
          /\ requests[i].session = requests[j].session
          /\ requests[i].processed /\ ~requests[i].success
          /\ requests[j].success
    /\ \E p \in Procs : pc[p] \in {"loop", "decide", "save"}

\* C30: a request that a pass has saved with success = true is never
\* rewritten to success = false.
AdmittedStaysAdmitted ==
    [][\A i \in 1..Len(requests) : requests[i].success => requests'[i].success]_vars

====
